---------------------------- MODULE Spec2Model ----------------------------
(***************************************************************************)
(* A model of acpilight: the brightness controller over a held text        *)
(* stream, the percentage/raw conversions in binary64 arithmetic, the      *)
(* stepwise sweep, the command-line policy gate and controller discovery.  *)
(***************************************************************************)
EXTENDS Integers, Sequences, FiniteSets, TLC

(***************************************************************************)
(* Natural numbers of any size, as little-endian sequences of limbs below  *)
(* Base with no leading zero limb (<<>> is 0).  They carry the significand *)
(* arithmetic of Python's float, which does not fit TLC's 32-bit integers. *)
(***************************************************************************)
Base == 2^15

\* the one element of a singleton; {F(v) : v \in {e}} computes e once for F
The(S) == CHOOSE v \in S : TRUE

Min(a, b) == IF a <= b THEN a ELSE b

Max(a, b) == IF a >= b THEN a ELSE b

Abs(n) == IF n < 0 THEN -n ELSE n

Sgn(n) == IF n < 0 THEN -1 ELSE 1

RECURSIVE BFromInt(_)
BFromInt(n) ==
    IF n = 0 THEN <<>> ELSE <<n % Base>> \o BFromInt(n \div Base)

RECURSIVE BToIntFrom(_, _)
BToIntFrom(x, i) ==
    IF i > Len(x) THEN 0 ELSE x[i] + Base * BToIntFrom(x, i + 1)

BToInt(x) == BToIntFrom(x, 1)

RECURSIVE BStrip(_)
BStrip(x) ==
    IF x = <<>> THEN x
    ELSE IF x[Len(x)] = 0 THEN BStrip(SubSeq(x, 1, Len(x) - 1))
    ELSE x

Limb(x, i) == IF i <= Len(x) THEN x[i] ELSE 0

RECURSIVE BMulFrom(_, _, _, _)
BMulFrom(x, k, i, carry) ==
    IF i > Len(x) THEN BFromInt(carry)
    ELSE LET p == x[i] * k + carry
         IN  <<p % Base>> \o BMulFrom(x, k, i + 1, p \div Base)

\* x * k for 0 <= k <= Base
BMulSmall(x, k) ==
    IF k = 0 THEN <<>> ELSE The({BMulFrom(v, w, 1, 0) : v \in {x}, w \in {k}})

RECURSIVE BDivFrom(_, _, _, _)
BDivFrom(x, d, i, rem) ==
    IF i = 0 THEN <<<<>>, rem>>
    ELSE LET cur == rem * Base + x[i]
             rest == BDivFrom(x, d, i - 1, cur % d)
         IN  <<Append(rest[1], cur \div d), rest[2]>>

\* <<x div d, x mod d>> for 0 < d <= Base
BDivSmall(x, d) ==
    The({<<BStrip(res[1]), res[2]>> :
            res \in {The({BDivFrom(v, w, Len(v), 0) : v \in {x}, w \in {d}})}})

RECURSIVE BAddFrom(_, _, _, _)
BAddFrom(x, y, i, c) ==
    IF i > Len(x) /\ i > Len(y) THEN (IF c = 0 THEN <<>> ELSE <<c>>)
    ELSE LET s == Limb(x, i) + Limb(y, i) + c
         IN  <<s % Base>> \o BAddFrom(x, y, i + 1, s \div Base)

BAdd(x, y) == The({BAddFrom(v, w, 1, 0) : v \in {x}, w \in {y}})

RECURSIVE BSubFrom(_, _, _, _)
BSubFrom(x, y, i, b) ==
    IF i > Len(x) THEN <<>>
    ELSE LET s == x[i] - Limb(y, i) - b
         IN  <<s % Base>> \o BSubFrom(x, y, i + 1, IF s < 0 THEN 1 ELSE 0)

\* x - y for x >= y
BSub(x, y) ==
    The({BStrip(r) : r \in {The({BSubFrom(v, w, 1, 0) : v \in {x}, w \in {y}})}})

RECURSIVE BCmpFrom(_, _, _)
BCmpFrom(x, y, i) ==
    IF i = 0 THEN 0
    ELSE IF x[i] < y[i] THEN -1
    ELSE IF x[i] > y[i] THEN 1
    ELSE BCmpFrom(x, y, i - 1)

\* -1, 0 or 1 as x <, =, > y
BCmp(x, y) ==
    IF Len(x) < Len(y) THEN -1
    ELSE IF Len(x) > Len(y) THEN 1
    ELSE BCmpFrom(x, y, Len(x))

RECURSIVE BitLenSmall(_)
BitLenSmall(n) == IF n = 0 THEN 0 ELSE 1 + BitLenSmall(n \div 2)

BBitLen(x) ==
    IF x = <<>> THEN 0 ELSE 15 * (Len(x) - 1) + BitLenSmall(x[Len(x)])

\* x * 2^n
BShl(x, n) ==
    IF x = <<>> THEN <<>>
    ELSE BMulSmall([i \in 1..(n \div 15) |-> 0] \o x, 2^(n % 15))

\* <<x div 2^n, whether a nonzero bit was shifted out>>
BShr(x, n) ==
    The({<<d[1], (\E i \in 1..Min(n \div 15, Len(x)) : x[i] # 0) \/ d[2] # 0>> :
            d \in {BDivSmall(SubSeq(x, (n \div 15) + 1, Len(x)), 2^(n % 15))}})

BOdd(x) == x # <<>> /\ x[1] % 2 = 1

(***************************************************************************)
(* Python's float (IEEE 754 binary64, round to nearest, ties to even), in  *)
(* the range the program uses (no overflow, no subnormals): s * m * 2^e    *)
(* with m of exactly MantBits bits, or zero.                               *)
(***************************************************************************)
MantBits == 52 + 1

FZero == [s |-> 1, m |-> <<>>, e |-> 0]

\* the rounding of q = mag div 2^k, rnd = <<mag div 2^(k-1), bits lost below>>
FRoundUp(s, rnd, q, k, e, sticky) ==
    LET up == BOdd(rnd[1]) /\ (rnd[2] \/ sticky \/ BOdd(q))
        r == IF up THEN BAdd(q, <<1>>) ELSE q
    IN  IF BBitLen(r) > MantBits
        THEN [s |-> s, m |-> BDivSmall(r, 2)[1], e |-> e + k + 1]
        ELSE [s |-> s, m |-> r, e |-> e + k]

FRoundLen(s, mag, len, e, sticky) ==
    IF len = 0 THEN FZero
    ELSE IF len <= MantBits
    THEN [s |-> s, m |-> BShl(mag, MantBits - len), e |-> e - (MantBits - len)]
    ELSE The({The({FRoundUp(s, rnd, q, len - MantBits, e, sticky) :
                      q \in {BDivSmall(rnd[1], 2)[1]}}) :
                 rnd \in {BShr(mag, len - MantBits - 1)}})

\* the float nearest to s * (mag + a fraction below 1, nonzero iff sticky) * 2^e
\* (round to nearest, ties to even)
FRound(s, mag, e, sticky) ==
    The({FRoundLen(s, v, BBitLen(v), e, b) : v \in {mag}, b \in {sticky}})

\* float(n)
FFromInt(n) == FRound(Sgn(n), BFromInt(Abs(n)), 0, FALSE)

\* a / b on two ints (Python's true division, correctly rounded), 0 < |b| <= Base
FIntDiv(a, b) ==
    The({FRound(Sgn(a) * Sgn(b), d[1], -75, d[2] # 0) :
            d \in {BDivSmall(BShl(BFromInt(Abs(a)), 75), Abs(b))}})

\* f * k for an int k, |k| <= Base
FMulInt(f, k) ==
    The({FRound(v.s * Sgn(k), BMulSmall(v.m, Abs(k)), v.e, FALSE) : v \in {f}})

\* f / d for an int d, 0 < |d| <= Base
FDivInt(f, d) ==
    The({The({FRound(v.s * Sgn(d), q[1], v.e - 30, q[2] # 0) :
                 q \in {BDivSmall(BShl(v.m, 30), Abs(d))}}) : v \in {f}})

FNeg(f) == The({IF v.m = <<>> THEN v ELSE [v EXCEPT !.s = -v.s] : v \in {f}})

\* -1, 0 or 1 as a <, =, > b for the magnitudes of two nonzero floats
FCmpMagAt(f, g, e) ==
    The({BCmp(a, b) : a \in {BShl(f.m, f.e - e)}, b \in {BShl(g.m, g.e - e)}})

FCmpMag(f, g) == FCmpMagAt(f, g, Min(f.e, g.e))

\* the sum of two nonzero floats with magnitudes a and b at exponent e
FAddAt(f, g, a, b, e) ==
    IF f.s = g.s THEN FRound(f.s, BAdd(a, b), e, FALSE)
    ELSE IF BCmp(a, b) = 0 THEN FZero
    ELSE IF BCmp(a, b) > 0 THEN FRound(f.s, BSub(a, b), e, FALSE)
    ELSE FRound(g.s, BSub(b, a), e, FALSE)

FAddValues(f, g) ==
    IF f.m = <<>> THEN g
    ELSE IF g.m = <<>> THEN f
    ELSE The({FAddAt(f, g, a, b, Min(f.e, g.e)) :
                 a \in {BShl(f.m, f.e - Min(f.e, g.e))},
                 b \in {BShl(g.m, g.e - Min(f.e, g.e))}})

\* f + g
FAdd(f, g) == The({FAddValues(v, w) : v \in {f}, w \in {g}})

\* f - g
FSub(f, g) == The({FAddValues(v, FNeg(w)) : v \in {f}, w \in {g}})

FLtValues(f, g) ==
    IF f.m = <<>> THEN g.m # <<>> /\ g.s = 1
    ELSE IF g.m = <<>> THEN f.s = -1
    ELSE IF f.s # g.s THEN f.s = -1
    ELSE IF f.s = 1 THEN FCmpMag(f, g) < 0
    ELSE FCmpMag(f, g) > 0

\* f < g
FLt(f, g) == The({FLtValues(v, w) : v \in {f}, w \in {g}})

\* f <= g
FLe(f, g) == The({v = w \/ FLtValues(v, w) : v \in {f}, w \in {g}})

FTruncValue(f) ==
    IF f.m = <<>> THEN 0
    ELSE IF f.e >= 0 THEN f.s * BToInt(BShl(f.m, f.e))
    ELSE f.s * BToInt(BShr(f.m, -f.e)[1])

\* math.trunc(f) and int(f): the integer part, toward zero
FTrunc(f) == The({FTruncValue(v) : v \in {f}})

(***************************************************************************)
(* Text: str(int) and int(str) on sequences of characters.                 *)
(***************************************************************************)
Digits == <<"0", "1", "2", "3", "4", "5", "6", "7", "8", "9">>

RECURSIVE StrNat(_)
StrNat(n) ==
    IF n < 10 THEN <<Digits[n + 1]>>
    ELSE Append(StrNat(n \div 10), Digits[(n % 10) + 1])

\* str(n)
Str(n) == IF n < 0 THEN <<"-">> \o StrNat(-n) ELSE StrNat(n)

IsDigit(c) == \E d \in 1..10 : Digits[d] = c

DigitValue(c) == (CHOOSE d \in 1..10 : Digits[d] = c) - 1

RECURSIVE ParseNatFrom(_, _, _)
ParseNatFrom(s, i, acc) ==
    IF i > Len(s) THEN acc
    ELSE ParseNatFrom(s, i + 1, 10 * acc + DigitValue(s[i]))

\* whether int(s) succeeds, for text of digits with an optional sign
IsInt(s) ==
    LET body == IF s # <<>> /\ s[1] = "-" THEN Tail(s) ELSE s
    IN  body # <<>> /\ \A i \in 1..Len(body) : IsDigit(body[i])

\* int(s)
ParseInt(s) ==
    IF s[1] = "-" THEN -ParseNatFrom(Tail(s), 1, 0) ELSE ParseNatFrom(s, 1, 0)

(***************************************************************************)
(* utils.normalize, on ints and on floats compared with int bounds.        *)
(***************************************************************************)
MINIMUM_BRIGHTNESS_VALUE == 0

MaxPercent == 100

NormalizeNoLower(value, minimum_value, maximum_value) ==
    Min(value, maximum_value)

\* max(min(value, maximum_value), minimum_value)
Normalize(value, minimum_value, maximum_value) ==
    Max(Min(value, maximum_value), minimum_value)

\* the same on a float value with int bounds; min and max return their first
\* argument unless the second is strictly smaller (larger)
NormalizeFloat(value, minimum_value, maximum_value) ==
    LET lo == FFromInt(minimum_value)
        hi == FFromInt(maximum_value)
        m == IF FLt(hi, value) THEN hi ELSE value
    IN  IF FLt(m, lo) THEN lo ELSE m

(***************************************************************************)
(* The program state.                                                      *)
(***************************************************************************)
VARIABLES
    max_brightness, \* Controller._max_brightness
    buf,            \* the text held by Controller._brightness_file
    pos,            \* the stream position of Controller._brightness_file
    written,        \* the arguments of write() during the current operation
    slept,          \* the arguments of time.sleep() during the current operation
    pc,             \* "idle", "sweep", "generate", "done" or "error"
    ret,            \* what the last operation returned (an int) or raised
    op,             \* the last accessor operation and its argument
    prev,           \* the accessor operation before it
    nops,           \* how many accessor operations ran
    call,           \* the arguments of the running command or generator call
    gen,            \* the frame of generate_brightness_steps
    sent,           \* the percentages the generator has yielded so far
    start,          \* raw value and percentage of the device when the call began
    fs,             \* per base location: absent, or os.listdir's entries in order
    controllers,    \* what get_controllers returned
    asked,          \* the controller_name given to make_controller
    opened,         \* the files make_controller opened
    outcome,        \* how discovery ended
    nargs,          \* the arguments of a normalize call
    nout            \* what it returned

ctlVars == <<max_brightness, buf, pos, written, slept, pc, ret, op, prev, nops>>

cliVars == <<call, gen, sent, start>>

discVars == <<fs, controllers, asked, opened, outcome>>

normVars == <<nargs, nout>>

vars == <<ctlVars, cliVars, discVars, normVars>>

(***************************************************************************)
(* The held stream (io.StringIO in the class's example and the tests):     *)
(* read() returns the text from the position to the end, write() replaces  *)
(* text in place from the position and never truncates.                    *)
(***************************************************************************)
StreamRead(b, p) == SubSeq(b, p + 1, Len(b))

StreamWrite(b, p, s) ==
    [i \in 1..Max(Len(b), p + Len(s)) |->
        IF i > p /\ i <= p + Len(s) THEN s[i - p] ELSE b[i]]

(***************************************************************************)
(* class Controller                                                        *)
(***************************************************************************)
\* the value of `percent * self._max_brightness / 100` truncated; percent is a
\* float, or an int below 2^53, for which int * int / int rounds the same way
RawOfPercent(percent, m) == FTrunc(FDivInt(FMulInt(percent, m), 100))

\* self.raw_brightness / self._max_brightness * 100
PercentOfRaw(raw, m) == FMulInt(FIntDiv(raw, m), 100)

RawTextUnclamped(new_value, m) == Str(new_value)

\* what the raw_brightness setter hands to write()
RawText(new_value, m) == Str(Normalize(new_value, MINIMUM_BRIGHTNESS_VALUE, m))

\* the text the brightness setter hands to write()
PercentText(percent, m) == RawText(RawOfPercent(percent, m), m)

\* the device's current percentage as the brightness getter computes it
CanRead == IsInt(StreamRead(buf, pos))

CurrentRaw == ParseInt(StreamRead(buf, pos))

CurrentPercent == PercentOfRaw(CurrentRaw, max_brightness)

(***************************************************************************)
(* Bounds and the inputs the operations are tried on.                      *)
(***************************************************************************)
SmallMax == 3

LargeMax == 50

MaxOps == 3

MaxSteps == 3

\* the maxima a controller is constructed with
Maxima == {0, SmallMax, LargeMax}

\* ints assigned to raw_brightness: below, within and above [0, max]
RawInputs == {-1, 0, 5, 10, LargeMax - 1, LargeMax + 1}

\* percentages given to the brightness setter and to -set, -inc and -dec
PercentInputs == {-10, 0, 29, 58, 75, MaxPercent, 150}

DefaultTime == 200

TimeInputs == {0, DefaultTime}

StepInputs == 0..MaxSteps

FpsInputs == {0, 10}

NoRet == [value |-> 0, percent |-> FZero, error |-> ""]

NoOp == [name |-> "none", arg |-> 0]

NoCall ==
    [name |-> "none", mode |-> "none", value |-> 0, steps |-> 0, fps |-> 0,
     time |-> 0, target |-> FZero, sleep |-> FZero]

NoGen == [current |-> FZero, started |-> FALSE, k |-> 1, finished |-> FALSE]

NoStart == [raw |-> 0, percent |-> FZero]

NoDir == [exists |-> FALSE, entries |-> <<>>]

\* a controller just constructed on a device holding a raw value within range
CtlInit ==
    /\ max_brightness \in Maxima
    /\ \E r \in 0..max_brightness : buf = Str(r)
    /\ pos = 0
    /\ written = <<>>
    /\ slept = <<>>
    /\ pc = "idle"
    /\ ret = NoRet
    /\ op = NoOp
    /\ prev = NoOp
    /\ nops = 0

CliIdle == call = NoCall /\ gen = NoGen /\ sent = <<>> /\ start = NoStart

DiscIdle ==
    /\ fs = <<NoDir, NoDir>>
    /\ controllers = <<>>
    /\ asked = <<>>
    /\ opened = <<>>
    /\ outcome = "none"

NormIdle ==
    /\ nargs = [value |-> 0, minimum_value |-> 0, maximum_value |-> 0]
    /\ nout = [done |-> FALSE, value |-> 0]

CtlIdle ==
    /\ max_brightness = 0
    /\ buf = <<>>
    /\ pos = 0
    /\ written = <<>>
    /\ slept = <<>>
    /\ pc = "idle"
    /\ ret = NoRet
    /\ op = NoOp
    /\ prev = NoOp
    /\ nops = 0

(***************************************************************************)
(* The accessors of Controller, called one after another on one controller.*)
(***************************************************************************)
\* one accessor call begins: the write log is the call's own
Begin(name, arg) ==
    /\ pc = "idle"
    /\ nops < MaxOps
    /\ nops' = nops + 1
    /\ op' = [name |-> name, arg |-> arg]
    /\ prev' = op
    /\ slept' = slept
    /\ UNCHANGED <<max_brightness, cliVars, discVars, normVars>>

\* controller.raw_brightness: int(read()), then seek(0)
GetRaw ==
    /\ Begin("raw_get", 0)
    /\ written' = <<>>
    /\ buf' = buf
    /\ IF CanRead
       THEN /\ ret' = [NoRet EXCEPT !.value = CurrentRaw]
            /\ pos' = 0
            /\ pc' = pc
       ELSE /\ ret' = [NoRet EXCEPT !.error = "ValueError"]
            /\ pos' = Len(buf)
            /\ pc' = "error"

\* controller.raw_brightness = new_value: normalize, write(str()), seek(0)
SetRaw(new_value) ==
    /\ Begin("raw_set", new_value)
    /\ written' = <<RawText(new_value, max_brightness)>>
    /\ buf' = StreamWrite(buf, pos, RawText(new_value, max_brightness))
    /\ pos' = 0
    /\ ret' = NoRet
    /\ pc' = pc

\* controller.brightness: the raw read, then / max * 100
GetBrightness ==
    /\ Begin("get", 0)
    /\ written' = <<>>
    /\ buf' = buf
    /\ IF ~CanRead
       THEN /\ ret' = [NoRet EXCEPT !.error = "ValueError"]
            /\ pos' = Len(buf)
            /\ pc' = "error"
       ELSE /\ pos' = 0
            /\ IF max_brightness = 0
               THEN /\ ret' = [NoRet EXCEPT !.error = "ZeroDivisionError"]
                    /\ pc' = "error"
               ELSE /\ ret' = [NoRet EXCEPT !.value = CurrentRaw,
                                             !.percent = CurrentPercent]
                    /\ pc' = pc

\* controller.brightness = percent, for an int percent
SetBrightness(percent) ==
    /\ Begin("set", percent)
    /\ written' = <<PercentText(FFromInt(percent), max_brightness)>>
    /\ buf' = StreamWrite(buf, pos, PercentText(FFromInt(percent), max_brightness))
    /\ pos' = 0
    /\ ret' = NoRet
    /\ pc' = pc

ControllerInit == CtlInit /\ CliIdle /\ DiscIdle /\ NormIdle

ControllerNext ==
    \/ GetRaw
    \/ \E v \in RawInputs : SetRaw(v)
    \/ GetBrightness
    \/ \E p \in PercentInputs : SetBrightness(p)

SpecController == ControllerInit /\ [][ControllerNext]_vars

(***************************************************************************)
(* generate_brightness_steps: the generator's frame and its next value.    *)
(***************************************************************************)
InterpolateSwapped(current, target, step, steps) ==
    FAdd(current, FDivInt(FMulInt(FSub(target, current), steps), step))

\* current + (target - current) * step / steps
Interpolate(current, target, step, steps) ==
    FAdd(current, FDivInt(FMulInt(FSub(target, current), step), steps))

GenStartedLive(g) == [g EXCEPT !.started = TRUE, !.current = CurrentPercent]

\* the frame once its first next() has read controller.brightness
GenStarted(g) ==
    IF g.started THEN g
    ELSE [g EXCEPT !.started = TRUE, !.current = CurrentPercent]

\* whether next() yields (otherwise it raises StopIteration)
GenHasNext(g, steps) == g.k < steps \/ ~g.finished

\* what next() yields: range(1, steps) first, then the target
GenValue(g, target, steps) ==
    IF g.k < steps THEN Interpolate(g.current, target, g.k, steps) ELSE target

\* the frame after that next()
GenAdvance(g, steps) ==
    IF g.k < steps THEN [g EXCEPT !.k = g.k + 1] ELSE [g EXCEPT !.finished = TRUE]

(***************************************************************************)
(* _handle_other_actions, the one command of a process, and the sweep.     *)
(***************************************************************************)
\* arguments.steps after `if arguments.fps:`
EffectiveSteps(steps, fps, time) ==
    IF fps # 0 THEN FTrunc(FMulInt(FIntDiv(fps, 1000), time)) ELSE steps

\* the target before normalize, from set, inc or dec
RequestedTarget(mode, value) ==
    IF mode = "set" THEN FFromInt(value)
    ELSE IF mode = "inc" THEN FAdd(CurrentPercent, FFromInt(value))
    ELSE FSub(CurrentPercent, FFromInt(value))

\* (delay / 1000.) / steps
SleepTime(delay, steps) == FDivInt(FIntDiv(delay, 1000), steps)

AlreadyThereNever(current, target) == FALSE

\* the gate's first test, `arguments.ctrl.brightness == target`
AlreadyThere(current, target) == current = target

DirectBelowOne(steps, time) == steps < 1 \/ time < 1

\* the gate's second test, `arguments.steps <= 1 or arguments.time < 1`
Direct(steps, time) == steps <= 1 \/ time < 1

\* the record of a command that got past its first read of the device
Command(mode, value, n, fps, time, target, sleep) ==
    [name |-> "command", mode |-> mode, value |-> value, steps |-> n,
     fps |-> fps, time |-> time, target |-> target, sleep |-> sleep]

HandleOtherActions(mode, value, steps, fps, time) ==
    /\ pc = "idle"
    /\ call = NoCall
    /\ UNCHANGED <<max_brightness, nops, op, prev, sent, discVars, normVars>>
    /\ IF max_brightness = 0
       THEN \* arguments.ctrl.brightness divides by zero
            /\ pc' = "error"
            /\ ret' = [NoRet EXCEPT !.error = "ZeroDivisionError"]
            /\ call' = [NoCall EXCEPT !.name = "command", !.mode = mode,
                           !.value = value, !.steps = steps, !.fps = fps,
                           !.time = time]
            /\ start' = [NoStart EXCEPT !.raw = CurrentRaw]
            /\ UNCHANGED <<buf, pos, written, slept, gen>>
       ELSE \E n \in {EffectiveSteps(steps, fps, time)},
               target \in {NormalizeFloat(RequestedTarget(mode, value),
                                          0, MaxPercent)},
               current \in {CurrentPercent} :
               /\ start' = [raw |-> CurrentRaw, percent |-> current]
               /\ ret' = NoRet
               /\ slept' = <<>>
               /\ gen' = NoGen
               /\ pos' = 0
               /\ IF AlreadyThere(current, target)
                  THEN /\ pc' = "done"
                       /\ written' = <<>>
                       /\ buf' = buf
                       /\ call' = Command(mode, value, n, fps, time, target, FZero)
                  ELSE IF Direct(n, time)
                  THEN \* arguments.ctrl.brightness = target
                       \E text \in {PercentText(target, max_brightness)} :
                          /\ pc' = "done"
                          /\ written' = <<text>>
                          /\ buf' = StreamWrite(buf, pos, text)
                          /\ call' = Command(mode, value, n, fps, time, target,
                                             FZero)
                  ELSE \* sweep_brightness(ctrl, target, steps, time)
                       /\ pc' = "sweep"
                       /\ written' = <<>>
                       /\ buf' = buf
                       /\ call' = Command(mode, value, n, fps, time, target,
                                          SleepTime(time, n))

\* one turn of sweep_brightness's loop: the generator's next value is written
\* through the brightness setter, then time.sleep(sleep)
SweepStep ==
    /\ pc = "sweep"
    /\ \E g \in {GenStarted(gen)} :
          \E value \in {GenValue(g, call.target, call.steps)} :
             \E text \in {PercentText(value, max_brightness)} :
                /\ sent' = Append(sent, value)
                /\ written' = Append(written, text)
                /\ buf' = StreamWrite(buf, pos, text)
                /\ pos' = 0
                /\ slept' = Append(slept, call.sleep)
                /\ gen' = GenAdvance(g, call.steps)
                /\ pc' = IF GenHasNext(GenAdvance(g, call.steps), call.steps)
                         THEN "sweep" ELSE "done"
    /\ UNCHANGED <<max_brightness, ret, op, prev, nops, call, start,
                   discVars, normVars>>

CliInit == CtlInit /\ CliIdle /\ DiscIdle /\ NormIdle

CliNext ==
    \/ \E mode \in {"set", "inc", "dec"}, value \in PercentInputs,
          time \in TimeInputs :
          \/ \E steps \in StepInputs :
                HandleOtherActions(mode, value, steps, 0, time)
          \/ \E fps \in FpsInputs \ {0} :
                HandleOtherActions(mode, value, 0, fps, time)
    \/ SweepStep

SpecCli == CliInit /\ [][CliNext]_vars

(***************************************************************************)
(* generate_brightness_steps iterated on its own, as the test does.        *)
(***************************************************************************)
MaxGenSteps == 10

GenSpan == 2

\* targets of the test (10..100) and a few below them
GenTargets == (-GenSpan)..MaxPercent

GenerateStart(target, steps) ==
    /\ pc = "idle"
    /\ call = NoCall
    /\ pc' = "generate"
    /\ call' = [NoCall EXCEPT !.name = "generate", !.value = target,
                   !.steps = steps, !.target = FFromInt(target)]
    /\ start' = [NoStart EXCEPT !.raw = CurrentRaw]
    /\ UNCHANGED <<max_brightness, buf, pos, written, slept, ret, op, prev,
                   nops, gen, sent, discVars, normVars>>

\* one next() on the generator
GenerateNext ==
    /\ pc = "generate"
    /\ UNCHANGED <<max_brightness, buf, written, slept, op, prev, nops, call,
                   start, discVars, normVars>>
    /\ IF ~gen.started /\ max_brightness = 0
       THEN \* controller.brightness divides by zero
            /\ pc' = "error"
            /\ ret' = [NoRet EXCEPT !.error = "ZeroDivisionError"]
            /\ pos' = 0
            /\ UNCHANGED <<gen, sent>>
       ELSE \E g \in {GenStarted(gen)} :
               /\ pos' = 0
               /\ ret' = ret
               /\ IF GenHasNext(g, call.steps)
                  THEN /\ sent' = Append(sent, GenValue(g, call.target, call.steps))
                       /\ gen' = GenAdvance(g, call.steps)
                       /\ pc' = pc
                  ELSE /\ sent' = sent
                       /\ gen' = g
                       /\ pc' = "done"

GenerateInit ==
    /\ CtlInit
    /\ CurrentRaw \in {0, max_brightness}
    /\ CliIdle /\ DiscIdle /\ NormIdle

GenerateNext1 ==
    \/ \E target \in GenTargets, steps \in 0..MaxGenSteps :
          GenerateStart(target, steps)
    \/ GenerateNext

SpecGenerate == GenerateInit /\ [][GenerateNext1]_vars

(***************************************************************************)
(* Discovery: get_controllers and make_controller over the device trees.   *)
(***************************************************************************)
CONTROLLERS_PATH == <<"/sys/class/backlight", "/sys/class/leds">>

MAXIMUM_BRIGHTNESS_FILE == "max_brightness"

BRIGHTNESS_FILE == "brightness"

MaxEntries == 2

DeviceNames == {"acpi_video0", "intel_backlight", "led0"}

\* what os.listdir may return: distinct names in any order
Listings ==
    {e \in UNION {[1..n -> DeviceNames] : n \in 0..MaxEntries} :
        \A i, j \in 1..Len(e) : i # j => e[i] # e[j]}

DirStates == {NoDir} \cup {[exists |-> TRUE, entries |-> e] : e \in Listings}

\* os.path.join(path, name), a path being the sequence of its components
Join(path, name) == Append(path, name)

\* d[key] = value on an OrderedDict (a sequence of <<key, value>>): a key
\* already present keeps its place and takes the new value
DictSet(d, key, value) ==
    IF \E i \in 1..Len(d) : d[i][1] = key
    THEN [i \in 1..Len(d) |-> IF d[i][1] = key THEN <<key, value>> ELSE d[i]]
    ELSE Append(d, <<key, value>>)

DictValues(d) == [i \in 1..Len(d) |-> d[i][2]]

\* d.get(key, default)
DictGet(d, key, default) ==
    IF \E i \in 1..Len(d) : d[i][1] = key
    THEN d[CHOOSE i \in 1..Len(d) : d[i][1] = key][2]
    ELSE default

RECURSIVE ListInto(_, _, _, _)
\* the inner loop: for name in os.listdir(path), from entry i on
ListInto(d, path, entries, i) ==
    IF i > Len(entries) THEN d
    ELSE ListInto(DictSet(d, <<entries[i]>>, Join(<<path>>, entries[i])),
                  path, entries, i + 1)

RECURSIVE ScanFrom(_, _, _)
\* the outer loop from base location p on: the mapping, or the error raised
ScanFrom(tree, d, p) ==
    IF p > Len(CONTROLLERS_PATH) THEN [error |-> "", map |-> d]
    ELSE IF ~tree[p].exists THEN [error |-> "FileNotFoundError", map |-> <<>>]
    ELSE ScanFrom(tree, ListInto(d, CONTROLLERS_PATH[p], tree[p].entries, 1),
                  p + 1)

\* get_controllers()
GetControllers(tree) == ScanFrom(tree, <<>>, 1)

\* the identifiers a caller may pass: a bare name or a joined path
Identifiers ==
    {<<n>> : n \in DeviceNames}
        \cup {Join(<<CONTROLLERS_PATH[p]>>, n) : p \in 1..2, n \in DeviceNames}

\* `controller_name not in controllers.values()`
Unknown(d, controller_name) ==
    \A i \in 1..Len(d) : DictValues(d)[i] # controller_name

\* `-list`: _display_controllers
DisplayControllers ==
    /\ outcome = "none"
    /\ \E r \in {GetControllers(fs)} :
          /\ controllers' = r.map
          /\ outcome' = IF r.error = "" THEN "listed" ELSE r.error
    /\ UNCHANGED <<fs, asked, opened, ctlVars, cliVars, normVars>>

\* make_controller(controller_name); <<>> stands for None
MakeController(controller_name) ==
    /\ outcome = "none"
    /\ asked' = controller_name
    /\ \E r \in {GetControllers(fs)} :
          /\ controllers' = r.map
          /\ IF r.error # ""
             THEN outcome' = r.error /\ opened' = <<>>
             ELSE IF controller_name # <<>> /\ Unknown(r.map, controller_name)
             THEN outcome' = "exit 1" /\ opened' = <<>>
             ELSE IF r.map = <<>>
             THEN \* tuple(controllers.values())[0]
                  outcome' = "IndexError" /\ opened' = <<>>
             ELSE \E c \in {DictGet(r.map, controller_name,
                                    DictValues(r.map)[1])} :
                     /\ outcome' = "made"
                     /\ opened' = <<Join(c, MAXIMUM_BRIGHTNESS_FILE),
                                     Join(c, BRIGHTNESS_FILE)>>
    /\ UNCHANGED <<fs, ctlVars, cliVars, normVars>>

DiscoveryInit ==
    /\ fs \in [1..2 -> DirStates]
    /\ controllers = <<>>
    /\ asked = <<>>
    /\ opened = <<>>
    /\ outcome = "none"
    /\ CtlIdle /\ CliIdle /\ NormIdle

DiscoveryNext ==
    \/ DisplayControllers
    \/ MakeController(<<>>)
    \/ \E name \in Identifiers : MakeController(name)

SpecDiscovery == DiscoveryInit /\ [][DiscoveryNext]_vars

(***************************************************************************)
(* normalize called on its own.                                            *)
(***************************************************************************)
NormSpan == 3

NormValues == ((-NormSpan)..NormSpan) \cup ((MaxPercent - NormSpan)..(MaxPercent + NormSpan))

NormBounds ==
    {<<MINIMUM_BRIGHTNESS_VALUE, MaxPercent>>}
        \cup {<<lo, hi>> \in ((-1)..NormSpan) \X ((-1)..NormSpan) : lo <= hi}

NormalizeCall ==
    /\ ~nout.done
    /\ nout' = [done |-> TRUE,
                value |-> Normalize(nargs.value, nargs.minimum_value,
                                    nargs.maximum_value)]
    /\ UNCHANGED <<nargs, ctlVars, cliVars, discVars>>

NormalizeInit ==
    /\ \E v \in NormValues, b \in NormBounds :
          nargs = [value |-> v, minimum_value |-> b[1], maximum_value |-> b[2]]
    /\ nout = [done |-> FALSE, value |-> 0]
    /\ CtlIdle /\ CliIdle /\ DiscIdle

SpecNormalize == NormalizeInit /\ [][NormalizeCall]_vars

(***************************************************************************)
(* The properties.                                                         *)
(***************************************************************************)
\* the raw value a percentage within 0..100 stands for, in exact integers
ExactRaw(percent, m) ==
    IF percent < 0 THEN 0
    ELSE IF percent > MaxPercent THEN m
    ELSE (percent * m) \div 100

\* C1: after `controller.brightness = p` for an int p (negative, within 0..100
\* or above 100) and a maximum m >= 0, write() was called exactly once, with
\* the canonical decimal text of a value v, 0 <= v <= m, which is p's raw value
\* clamped; nothing is raised.
C1_SetBrightnessClamps ==
    op.name = "set" =>
        /\ pc = "idle"
        /\ ret.error = ""
        /\ Len(written) = 1
        /\ IsInt(written[1])
        /\ written[1] = Str(ParseInt(written[1]))
        /\ 0 <= ParseInt(written[1])
        /\ ParseInt(written[1]) <= max_brightness
        /\ ParseInt(written[1]) = ExactRaw(op.arg, max_brightness)

\* C1's case: a percentage above 100 was clamped to a positive maximum
C1_Witness ==
    /\ op.name = "set"
    /\ op.arg > MaxPercent
    /\ max_brightness = LargeMax
    /\ written = <<Str(LargeMax)>>

\* C2: with the controller at 0%, a target T in 10..100 and S steps, 0 <= S <=
\* MaxGenSteps, every value generate_brightness_steps has yielded is <= T.
C2_StepsBelowTarget ==
    (/\ call.name = "generate"
     /\ gen.started
     /\ gen.current = FZero
     /\ call.value >= 10
     /\ call.value <= MaxPercent
     /\ call.steps >= 0
     /\ call.steps <= MaxGenSteps)
        => \A i \in 1..Len(sent) : FLe(sent[i], FFromInt(call.value))

\* C2's case: the generator ran dry from 0% after three interpolated values
C2_Witness ==
    /\ call.name = "generate"
    /\ pc = "done"
    /\ gen.current = FZero
    /\ call.value = 10
    /\ call.steps = 4
    /\ Len(sent) = 4

\* the command went into sweep_brightness
Swept ==
    /\ call.name = "command"
    /\ pc \in {"sweep", "done"}
    /\ start.percent # call.target
    /\ call.steps > 1
    /\ call.time >= 1

C4_NoOpAtTarget ==
    (call.name = "command" /\ pc # "error" /\ start.percent = call.target)
        => /\ pc = "done"
           /\ written = <<>>
           /\ slept = <<>>
           /\ buf = Str(start.raw)
           /\ pos = 0

\* C4's case: the target is the current percentage although steps and time
\* ask for a sweep
C4_Witness ==
    /\ call.name = "command"
    /\ pc = "done"
    /\ start.percent = call.target
    /\ start.raw > 0
    /\ call.steps > 1
    /\ call.time >= 1

\* C5 as claimed: with steps <= 1 or time < 1 and any target, exactly one
\* write occurs, of the target's raw value, and no sleep.
C5_DirectWriteAnyTarget ==
    (/\ call.name = "command"
     /\ pc # "error"
     /\ (call.steps <= 1 \/ call.time < 1))
        => /\ pc = "done"
           /\ written = <<PercentText(call.target, max_brightness)>>
           /\ slept = <<>>

\* C5 amended: with steps <= 1 or time < 1 and a target that differs from the
\* current percentage, exactly one write occurs, of the target's raw value,
\* and no sleep.
C5_DirectWrite ==
    (/\ call.name = "command"
     /\ pc # "error"
     /\ start.percent # call.target
     /\ (call.steps <= 1 \/ call.time < 1))
        => /\ pc = "done"
           /\ written = <<PercentText(call.target, max_brightness)>>
           /\ slept = <<>>

\* C5's case: steps = 1 with time to sweep in, and one write that changes the
\* device
C5_Witness ==
    /\ call.name = "command"
    /\ pc = "done"
    /\ call.steps = 1
    /\ call.time >= 1
    /\ Len(written) = 1
    /\ written[1] # Str(start.raw)

\* C6: reading raw_brightness right after `raw_brightness = r`, 0 <= r <= max,
\* returns r, whatever the stream held before.
C6_RawRoundTrip ==
    (/\ op.name = "raw_get"
     /\ prev.name = "raw_set"
     /\ prev.arg >= 0
     /\ prev.arg <= max_brightness)
        => ret.error = "" /\ ret.value = prev.arg

\* C7: normalize(v, lo, hi) with lo <= hi is lo below lo, hi above hi and v
\* otherwise; normalize(v, 0, 100) lies in 0..100.
C7_Normalize ==
    nout.done =>
        /\ nargs.value < nargs.minimum_value => nout.value = nargs.minimum_value
        /\ nargs.value > nargs.maximum_value => nout.value = nargs.maximum_value
        /\ (nargs.value >= nargs.minimum_value
                /\ nargs.value <= nargs.maximum_value)
              => nout.value = nargs.value
        /\ (nargs.minimum_value = 0 /\ nargs.maximum_value = MaxPercent)
              => nout.value \in 0..MaxPercent

\* C7's case: a negative value normalized into 0..100
C7_Witness ==
    /\ nout.done
    /\ nargs.value < 0
    /\ nargs.minimum_value = 0
    /\ nargs.maximum_value = MaxPercent
    /\ nout.value = 0

RECURSIVE ScanExisting(_, _, _)
\* the mapping built from the base locations that exist, in configured order
ScanExisting(tree, d, p) ==
    IF p > Len(CONTROLLERS_PATH) THEN d
    ELSE IF ~tree[p].exists THEN ScanExisting(tree, d, p + 1)
    ELSE ScanExisting(tree,
                      ListInto(d, CONTROLLERS_PATH[p], tree[p].entries, 1),
                      p + 1)

\* C8: discovery never fails on an absent base location: it returns the
\* mapping built from the locations that exist (empty when none does).
C8_AbsentLocationSkipped ==
    outcome # "none" =>
        /\ outcome # "FileNotFoundError"
        /\ controllers = ScanExisting(fs, <<>>, 1)

\* C9: make_controller with an identifier that passes the membership check
\* opens the max_brightness and brightness files of that very device.
C9_ResolvesMatchedDevice ==
    (outcome = "made" /\ asked # <<>>)
        => opened = <<Join(asked, MAXIMUM_BRIGHTNESS_FILE),
                      Join(asked, BRIGHTNESS_FILE)>>

\* the raw value the sweep's k-th write handed to the device
WrittenRaw(k) == ParseInt(written[k])

\* C10: the raw values a sweep writes never move away from the target: they
\* are non-decreasing when the target is above the current percentage and
\* non-increasing when below, and each lies between the starting raw value
\* and the target's raw value.
C10_SweepMonotone ==
    (/\ Swept
     /\ max_brightness > 0
     /\ start.raw \in 0..max_brightness
     /\ call.mode = "set"
     /\ call.value \in 0..MaxPercent) =>
        \E t \in {Normalize(RawOfPercent(call.target, max_brightness),
                            MINIMUM_BRIGHTNESS_VALUE, max_brightness)} :
           /\ \A k \in 1..Len(written) :
                 /\ Min(start.raw, t) <= WrittenRaw(k)
                 /\ WrittenRaw(k) <= Max(start.raw, t)
           /\ \A k \in 2..Len(written) :
                 /\ FLt(start.percent, call.target)
                       => WrittenRaw(k - 1) <= WrittenRaw(k)
                 /\ FLt(call.target, start.percent)
                       => WrittenRaw(k - 1) >= WrittenRaw(k)

=============================================================================
